---------------------------- MODULE Spec2Model ----------------------------
(***************************************************************************)
(* A model of the selector compiler and evaluator of                      *)
(* src/SelectorExpression.cpp: the recursive-descent parser as a stack    *)
(* machine over a lazily lexed token stream, the exact-numeric literal    *)
(* compiler, and the tri-state evaluator of the expression tree.          *)
(***************************************************************************)
EXTENDS Integers, Sequences, FiniteSets, TLC

VARIABLES
    expr,       \* SpecEval: the root node owned by the compiled Expression
    env,        \* SpecEval: the environment of the last evaluation
    bn,         \* SpecEval: the root node's tri-state result in env
    matched,    \* SpecEval: what Expression.evaluate(env) returned
    phase,      \* SpecEval: "compiled" before the first evaluation, then "evaluated"
    numTok,     \* SpecNum: the exact-numeric token handed to parseExactNumeric
    numNeg,     \* SpecNum: its negate argument
    numRes,     \* SpecNum: what parseExactNumeric returned, NotCalled before the call
    tokeniser,  \* Spec: the Tokeniser over the selector text
    stack,      \* Spec: the frames of the productions that are running
    ret,        \* Spec: the node the production that returned last has returned
    error,      \* Spec: Parse::error
    outcome,    \* Spec: "parsing", then "returned", "thrown" or "undefined"
    compiled,   \* Spec: the Expression make_selector returned
    exception   \* Spec: the token and the reason of the error thrown

evalVars == <<expr, env, bn, matched, phase>>
numVars == <<numTok, numNeg, numRes>>
parseVars == <<tokeniser, stack, ret, error, outcome, compiled, exception>>
vars == <<expr, env, bn, matched, phase, numTok, numNeg, numRes,
          tokeniser, stack, ret, error, outcome, compiled, exception>>

-----------------------------------------------------------------------------
(* Bounds *)

\* the tokens of a selector up to which every text is compiled
MaxTokens == 3

\* the longest IN / NOT IN list that is evaluated
MaxList == 2

\* the width in bits of the integers of the model, standing for the 64 bits
\* of uint64_t / int64_t
IntBits == 6

\* the most digits of an exact-numeric token, its radix prefix not counted
MaxDigits == 3

\* the longest LIKE pattern, and the longest string matched against one
MaxPattern == 3
MaxText == 3

-----------------------------------------------------------------------------
(* BoolOrNone and Value (SelectorValue.h is not part of src/) *)

BN_FALSE == "BN_FALSE"
BN_TRUE == "BN_TRUE"
BN_UNKNOWN == "BN_UNKNOWN"
BoolOrNoneSet == {BN_FALSE, BN_TRUE, BN_UNKNOWN}

\* BoolOrNone(bool): a native boolean lifted to True / False
BoolOrNone(b) == IF b THEN BN_TRUE ELSE BN_FALSE

UnknownValue == [t |-> "T_UNKNOWN", v |-> 0]
BoolValue(b) == [t |-> "T_BOOL", v |-> b]
StringValue(s) == [t |-> "T_STRING", v |-> s]
ExactValue(i) == [t |-> "T_EXACT", v |-> i]
InexactValue(x) == [t |-> "T_INEXACT", v |-> x]

\* Value(BoolOrNone): Unknown is the unknown value, True / False a boolean
ValueOfBoolOrNone(r) == IF r = BN_UNKNOWN THEN UnknownValue ELSE BoolValue(r = BN_TRUE)

unknown(v) == v.t = "T_UNKNOWN"
numeric(v) == v.t \in {"T_EXACT", "T_INEXACT"}
sameType(v1, v2) == v1.t = v2.t

\* two known values can be compared: both numeric, or of the same type
Comparable(v1, v2) == (numeric(v1) /\ numeric(v2)) \/ (sameType(v1, v2) /\ ~unknown(v1))

\* the characters of the model's strings, in their order
CharOrder == <<"%", "-", "0", "1", "5", "7", "9", "F", "L", "_", "a", "b", "s", "t", "x">>
CharCode(c) == CHOOSE i \in 1..Len(CharOrder) : CharOrder[i] = c

RECURSIVE StrLess(_, _)
StrLess(s1, s2) ==
    IF s2 = <<>> THEN FALSE
    ELSE IF s1 = <<>> THEN TRUE
    ELSE IF Head(s1) = Head(s2) THEN StrLess(Tail(s1), Tail(s2))
    ELSE CharCode(Head(s1)) < CharCode(Head(s2))

\* the order of two comparable values: numbers by value, strings
\* lexicographically, false before true
Below(v1, v2) ==
    CASE v1.t = "T_BOOL" -> ~v1.v /\ v2.v
      [] v1.t = "T_STRING" -> StrLess(v1.v, v2.v)
      [] OTHER -> v1.v < v2.v

\* operator==, !=, <, >, <=, >= of Value: false on values that cannot be compared
ValueEq(v1, v2) == Comparable(v1, v2) /\ v1.v = v2.v
ValueNe(v1, v2) == Comparable(v1, v2) /\ v1.v # v2.v
ValueLt(v1, v2) == Comparable(v1, v2) /\ Below(v1, v2)
ValueGt(v1, v2) == Comparable(v1, v2) /\ Below(v2, v1)
ValueLe(v1, v2) == Comparable(v1, v2) /\ ~Below(v2, v1)
ValueGe(v1, v2) == Comparable(v1, v2) /\ ~Below(v1, v2)

\* a sum, difference or product in the width of the exact integers
WrapExact(i) == ((i + 2^(IntBits - 1)) % 2^IntBits) - 2^(IntBits - 1)

\* the type of the result of an operation on two numbers: exact only when
\* both are
Promoted(v1, v2, x) ==
    IF v1.t = "T_EXACT" /\ v2.t = "T_EXACT" THEN ExactValue(WrapExact(x)) ELSE InexactValue(x)

\* operator+, -, *, / and unary - of Value: the unknown value unless the
\* operands are numbers; the model's quotients are the integral ones
ValueAdd(v1, v2) == IF numeric(v1) /\ numeric(v2) THEN Promoted(v1, v2, v1.v + v2.v) ELSE UnknownValue
ValueSub(v1, v2) == IF numeric(v1) /\ numeric(v2) THEN Promoted(v1, v2, v1.v - v2.v) ELSE UnknownValue
ValueMult(v1, v2) == IF numeric(v1) /\ numeric(v2) THEN Promoted(v1, v2, v1.v * v2.v) ELSE UnknownValue
ValueDiv(v1, v2) ==
    IF numeric(v1) /\ numeric(v2) /\ v2.v # 0
    THEN LET q == IF (v1.v < 0) = (v2.v < 0)
                  THEN (IF v1.v < 0 THEN -v1.v ELSE v1.v) \div (IF v2.v < 0 THEN -v2.v ELSE v2.v)
                  ELSE -((IF v1.v < 0 THEN -v1.v ELSE v1.v) \div (IF v2.v < 0 THEN -v2.v ELSE v2.v))
         IN  Promoted(v1, v2, q)
    ELSE UnknownValue
ValueNegate(v) == IF numeric(v) THEN Promoted(v, v, -v.v) ELSE UnknownValue

-----------------------------------------------------------------------------
(* LIKE patterns and the regular expressions they are compiled to *)

\* char e = 0: no escape character
NoChar == "NUL"

\* the loop of LikeExpression::toRegex over the rest s of the pattern
RECURSIVE toRegexLoop(_, _, _, _)
toRegexLoop(s, e, doEscape, regex) ==
    IF s = <<>> THEN regex \o <<"$">>
    ELSE LET i == Head(s)
         IN  IF e # NoChar /\ i = e THEN toRegexLoop(Tail(s), e, TRUE, regex)
             ELSE toRegexLoop(Tail(s), e, FALSE,
                      regex \o CASE i = "%" -> IF doEscape THEN <<i>> ELSE <<".", "*">>
                                 [] i = "_" -> IF doEscape THEN <<i>> ELSE <<".">>
                                 [] i = "]" -> <<"[", "]", "]">>
                                 [] i = "-" -> <<"[", "-", "]">>
                                 [] i \in {"\\", "^", "$", ".", "*", "["} -> <<"\\", i>>
                                 [] OTHER -> <<i>>)

\* LikeExpression::toRegex, for an escape of at most one character
toRegex(s, escape) ==
    toRegexLoop(s, IF Len(escape) = 1 THEN escape[1] ELSE NoChar, FALSE, <<"^">>)

\* toRegex throws std::logic_error("Internal error")
toRegex_Throws(escape) == Len(escape) > 1

\* the quantifiers of an ECMAScript regular expression
Quantifiers == {"*", "+", "?"}

\* the characters that . does not match
LineTerminators == {"\n", "\r"}

\* an ECMAScript regular expression without ^ and $ read as a sequence of
\* atoms, each with its quantifier: \c is the character c, . any character;
\* a quantifier with no atom before it is an error. (Of the grammar only
\* what the patterns of the model are compiled to is read: no classes, groups
\* or alternatives.)
RECURSIVE RegexItems(_)
RegexItems(r) ==
    IF r = <<>> THEN <<>>
    ELSE IF r[1] \in Quantifiers THEN <<[kind |-> "error_badrepeat", ch |-> r[1], q |-> "one"]>>
    ELSE LET n == IF r[1] = "\\" THEN 2 ELSE 1
             atom == IF r[1] = "\\" THEN [kind |-> "char", ch |-> r[2]]
                     ELSE IF r[1] = "." THEN [kind |-> "any", ch |-> "."]
                     ELSE [kind |-> "char", ch |-> r[1]]
             quantified == Len(r) > n /\ r[n + 1] \in Quantifiers
             q == IF quantified THEN r[n + 1] ELSE "one"
             m == IF quantified THEN n + 1 ELSE n
         IN  <<[kind |-> atom.kind, ch |-> atom.ch, q |-> q]>> \o RegexItems(SubSeq(r, m + 1, Len(r)))

\* a regular expression "^...$" without its anchors
Unanchored(re) == SubSeq(re, 2, Len(re) - 1)

\* std::regex(reString) throws std::regex_error
regex_Throws(re) ==
    \E i \in 1..Len(RegexItems(Unanchored(re))) : RegexItems(Unanchored(re))[i].kind = "error_badrepeat"

\* the whole of s matches the items
RECURSIVE MatchItems(_, _)
MatchItems(items, s) ==
    IF items = <<>> THEN s = <<>>
    ELSE LET it == Head(items)
             rest == Tail(items)
             hit == /\ s # <<>>
                    /\ \/ it.kind = "any" /\ Head(s) \notin LineTerminators
                       \/ it.kind = "char" /\ Head(s) = it.ch
         IN  CASE it.q = "one" -> hit /\ MatchItems(rest, Tail(s))
               [] it.q = "*" -> MatchItems(rest, s) \/ (hit /\ MatchItems(items, Tail(s)))
               [] it.q = "+" -> hit /\ (MatchItems(rest, Tail(s)) \/ MatchItems(items, Tail(s)))
               [] it.q = "?" -> MatchItems(rest, s) \/ (hit /\ MatchItems(rest, Tail(s)))

\* std::regex_match(s, regexBuffer) for regexBuffer compiled from re
regex_match(s, re) == MatchItems(RegexItems(Unanchored(re)), s)

-----------------------------------------------------------------------------
(* Expression tree: one record per node class, tagged by k *)

Null == [k |-> "nullptr"]

Literal(v) == [k |-> "Literal", value |-> v]
StringLiteral(s) == [k |-> "StringLiteral", value |-> s]
Identifier(i) == [k |-> "Identifier", identifier |-> i]
ComparisonExpression(o, e1, e2) == [k |-> "ComparisonExpression", op |-> o, e1 |-> e1, e2 |-> e2]
OrExpression(e1, e2) == [k |-> "OrExpression", e1 |-> e1, e2 |-> e2]
AndExpression(e1, e2) == [k |-> "AndExpression", e1 |-> e1, e2 |-> e2]
UnaryBooleanExpression(o, e1) == [k |-> "UnaryBooleanExpression", op |-> o, e1 |-> e1]
BetweenExpression(e, l, u) == [k |-> "BetweenExpression", e |-> e, l |-> l, u |-> u]
InExpression(e, l) == [k |-> "InExpression", e |-> e, l |-> l]
NotInExpression(e, l) == [k |-> "NotInExpression", e |-> e, l |-> l]
\* LikeExpression(e_, like, escape): the pattern and the escape it was made
\* of are kept beside reString
LikeExpression(e, like, escape) ==
    [k |-> "LikeExpression", e |-> e, like |-> like, escape |-> escape,
     reString |-> toRegex(like, escape)]
\* the constructor of LikeExpression throws
LikeExpression_Throws(like, escape) == toRegex_Throws(escape) \/ regex_Throws(toRegex(like, escape))
ArithmeticExpression(o, e1, e2) == [k |-> "ArithmeticExpression", op |-> o, e1 |-> e1, e2 |-> e2]
UnaryArithExpression(o, e1) == [k |-> "UnaryArithExpression", op |-> o, e1 |-> e1]

ComparisonOps == {"eqOp", "neqOp", "lsOp", "grOp", "lseqOp", "greqOp"}

\* Token of SelectorToken.h: a kind and the literal text
EosToken == [type |-> "T_EOS", val |-> <<>>]
NumericToken(text) == [type |-> "T_NUMERIC_EXACT", val |-> text]

\* the result slot of a parseExactNumeric call that has not been made
NotCalled == [e |-> Null, error |-> "not called"]

-----------------------------------------------------------------------------
(* Evaluation *)

RECURSIVE eval(_, _)
RECURSIVE eval_bool(_, _)

\* Identifier::eval: the environment's value of the property, the unknown
\* value when the property is absent
Identifier_eval(e, en) ==
    IF e.identifier \in DOMAIN en THEN en[e.identifier] ELSE UnknownValue

\* ValueExpression::eval_bool: only a boolean value is a tri-state result
ValueExpression_eval_bool(v) ==
    IF v.t = "T_BOOL" THEN BoolOrNone(v.v) ELSE BN_UNKNOWN

\* the Value operator a comparison operator hands to booleval
BoolOp(o, v1, v2) ==
    CASE o = "eqOp" -> ValueEq(v1, v2)
      [] o = "neqOp" -> ValueNe(v1, v2)
      [] o = "lsOp" -> ValueLt(v1, v2)
      [] o = "grOp" -> ValueGt(v1, v2)
      [] o = "lseqOp" -> ValueLe(v1, v2)
      [] o = "greqOp" -> ValueGe(v1, v2)

\* booleval answering Unknown for two known values that cannot be compared
booleval_Incomparable(o, e1, e2, en) ==
    LET v1 == eval(e1, en)
        v2 == eval(e2, en)
    IN  IF ~unknown(v1) /\ ~unknown(v2) /\ Comparable(v1, v2)
        THEN BoolOrNone(BoolOp(o, v1, v2))
        ELSE BN_UNKNOWN

booleval(o, e1, e2, en) ==
    LET v1 == eval(e1, en)
    IN  IF ~unknown(v1)
        THEN LET v2 == eval(e2, en)
             IN  IF ~unknown(v2) THEN BoolOrNone(BoolOp(o, v1, v2)) ELSE BN_UNKNOWN
        ELSE BN_UNKNOWN

OrExpression_eval_bool(e, en) ==
    LET bn1 == eval_bool(e.e1, en)
    IN  IF bn1 = BN_TRUE THEN BN_TRUE
        ELSE LET bn2 == eval_bool(e.e2, en)
             IN  IF bn2 = BN_TRUE THEN BN_TRUE
                 ELSE IF bn1 = BN_FALSE /\ bn2 = BN_FALSE THEN BN_FALSE
                 ELSE BN_UNKNOWN

\* AND that lets an Unknown first operand decide before the second is read
AndExpression_eval_bool_Eager(e, en) ==
    LET bn1 == eval_bool(e.e1, en)
    IN  IF bn1 # BN_TRUE THEN bn1
        ELSE eval_bool(e.e2, en)

AndExpression_eval_bool(e, en) ==
    LET bn1 == eval_bool(e.e1, en)
    IN  IF bn1 = BN_FALSE THEN BN_FALSE
        ELSE LET bn2 == eval_bool(e.e2, en)
             IN  IF bn2 = BN_FALSE THEN BN_FALSE
                 ELSE IF bn1 = BN_TRUE /\ bn2 = BN_TRUE THEN BN_TRUE
                 ELSE BN_UNKNOWN

IsNull_eval(e, en) == BoolOrNone(unknown(eval(e, en)))

\* IS NOT NULL that reads its operand as a tri-state boolean
IsNonNull_eval_ViaBool(e, en) ==
    LET v == eval(e, en)
    IN  IF unknown(v) THEN BN_FALSE ELSE ValueExpression_eval_bool(v)

IsNonNull_eval(e, en) == BoolOrNone(~unknown(eval(e, en)))

Not_eval(e, en) ==
    LET r == eval_bool(e, en)
    IN  IF r = BN_UNKNOWN THEN r ELSE BoolOrNone(r = BN_FALSE)

\* the node classes that are ValueExpressions only, and the BoolExpressions
ValueNodes == {"Literal", "StringLiteral", "Identifier", "ArithmeticExpression", "UnaryArithExpression"}
BoolNodes == {"ComparisonExpression", "OrExpression", "AndExpression", "UnaryBooleanExpression",
              "BetweenExpression", "InExpression", "NotInExpression", "LikeExpression"}

\* LikeExpression::eval_bool
LikeExpression_eval_bool(e, en) ==
    LET v == eval(e.e, en)
    IN  IF v.t # "T_STRING" THEN BN_UNKNOWN ELSE BoolOrNone(regex_match(v.v, e.reString))

\* ArithmeticExpression::eval with Add, Sub, Mult and Div
ArithmeticExpression_eval(e, en) ==
    LET v1 == eval(e.e1, en)
        v2 == eval(e.e2, en)
    IN  CASE e.op = "add" -> ValueAdd(v1, v2)
          [] e.op = "sub" -> ValueSub(v1, v2)
          [] e.op = "mult" -> ValueMult(v1, v2)
          [] e.op = "div" -> ValueDiv(v1, v2)

\* UnaryArithExpression::eval with Negate
UnaryArithExpression_eval(e, en) == ValueNegate(eval(e.e1, en))

UnaryBooleanExpression_eval_bool(e, en) ==
    CASE e.op = "isNullOp" -> IsNull_eval(e.e1, en)
      [] e.op = "isNonNullOp" -> IsNonNull_eval(e.e1, en)
      [] e.op = "notOp" -> Not_eval(e.e1, en)

\* BETWEEN that forgets to test the upper bound for unknown
BetweenExpression_eval_bool_NoUpper(e, en) ==
    LET ve == eval(e.e, en)
        vl == eval(e.l, en)
        vu == eval(e.u, en)
    IN  IF unknown(ve) \/ unknown(vl) THEN BN_UNKNOWN
        ELSE BoolOrNone(ValueGe(ve, vl) /\ ValueLe(ve, vu))

BetweenExpression_eval_bool(e, en) ==
    LET ve == eval(e.e, en)
        vl == eval(e.l, en)
        vu == eval(e.u, en)
    IN  IF unknown(ve) \/ unknown(vl) \/ unknown(vu) THEN BN_UNKNOWN
        ELSE BoolOrNone(ValueGe(ve, vl) /\ ValueLe(ve, vu))

\* the loop of InExpression::eval_bool from list index i on, r the result so far
RECURSIVE InLoop(_, _, _, _, _)
InLoop(ve, l, i, r, en) ==
    IF i > Len(l) THEN r
    ELSE LET li == eval(l[i], en)
         IN  IF unknown(li) THEN InLoop(ve, l, i + 1, BN_UNKNOWN, en)
             ELSE IF ValueEq(ve, li) THEN BN_TRUE
             ELSE InLoop(ve, l, i + 1, r, en)

\* IN without the test of the left operand
InExpression_eval_bool_NoGuard(e, en) ==
    InLoop(eval(e.e, en), e.l, 1, BN_FALSE, en)

InExpression_eval_bool(e, en) ==
    LET ve == eval(e.e, en)
    IN  IF unknown(ve) THEN BN_UNKNOWN ELSE InLoop(ve, e.l, 1, BN_FALSE, en)

\* the NOT IN loop with the incompatibility test not guarded by r
RECURSIVE NotInLoop_Unguarded(_, _, _, _, _)
NotInLoop_Unguarded(ve, l, i, r, en) ==
    IF i > Len(l) THEN r
    ELSE LET li == eval(l[i], en)
         IN  IF unknown(li) THEN NotInLoop_Unguarded(ve, l, i + 1, BN_UNKNOWN, en)
             ELSE IF ~sameType(ve, li) /\ ~(numeric(ve) /\ numeric(li))
                  THEN NotInLoop_Unguarded(ve, l, i + 1, BN_FALSE, en)
             ELSE IF ValueEq(ve, li) THEN BN_FALSE
             ELSE NotInLoop_Unguarded(ve, l, i + 1, r, en)

\* the loop of NotInExpression::eval_bool from list index i on
RECURSIVE NotInLoop(_, _, _, _, _)
NotInLoop(ve, l, i, r, en) ==
    IF i > Len(l) THEN r
    ELSE LET li == eval(l[i], en)
         IN  IF unknown(li) THEN NotInLoop(ve, l, i + 1, BN_UNKNOWN, en)
             ELSE IF r # BN_UNKNOWN /\ ~sameType(ve, li) /\ ~(numeric(ve) /\ numeric(li))
                  THEN NotInLoop(ve, l, i + 1, BN_FALSE, en)
             ELSE IF ValueEq(ve, li) THEN BN_FALSE
             ELSE NotInLoop(ve, l, i + 1, r, en)

NotInExpression_eval_bool(e, en) ==
    LET ve == eval(e.e, en)
    IN  IF unknown(ve) THEN BN_UNKNOWN ELSE NotInLoop(ve, e.l, 1, BN_TRUE, en)

\* the virtual eval_bool of a node: the boolean family overrides it, a value
\* node inherits ValueExpression::eval_bool
eval_bool(e, en) ==
    CASE e.k = "ComparisonExpression" -> booleval(e.op, e.e1, e.e2, en)
      [] e.k = "OrExpression" -> OrExpression_eval_bool(e, en)
      [] e.k = "AndExpression" -> AndExpression_eval_bool(e, en)
      [] e.k = "UnaryBooleanExpression" -> UnaryBooleanExpression_eval_bool(e, en)
      [] e.k = "BetweenExpression" -> BetweenExpression_eval_bool(e, en)
      [] e.k = "InExpression" -> InExpression_eval_bool(e, en)
      [] e.k = "NotInExpression" -> NotInExpression_eval_bool(e, en)
      [] e.k = "LikeExpression" -> LikeExpression_eval_bool(e, en)
      [] e.k \in ValueNodes -> ValueExpression_eval_bool(eval(e, en))

\* the virtual eval of a node: a boolean node's value is its tri-state result
eval(e, en) ==
    CASE e.k = "Literal" -> e.value
      [] e.k = "StringLiteral" -> StringValue(e.value)
      [] e.k = "Identifier" -> Identifier_eval(e, en)
      [] e.k = "ArithmeticExpression" -> ArithmeticExpression_eval(e, en)
      [] e.k = "UnaryArithExpression" -> UnaryArithExpression_eval(e, en)
      [] e.k \in BoolNodes -> ValueOfBoolOrNone(eval_bool(e, en))

\* evaluate that only rejects False
ConcreteExpression_eval_NotFalse(e, en) ==
    eval_bool(e, en) # BN_FALSE

\* ConcreteExpression::eval: only True matches
ConcreteExpression_eval(e, en) ==
    LET r == eval_bool(e, en)
    IN  IF r = BN_TRUE THEN TRUE ELSE FALSE

-----------------------------------------------------------------------------
(* Exact-numeric literals *)

UINT64_MAX == 2^IntBits - 1
INT64_MAX == 2^(IntBits - 1) - 1
INT64_MIN == -(2^(IntBits - 1))

Range(f) == {f[i] : i \in DOMAIN f}

\* s[i] of a std::string: the terminating NUL at i = size()
At(s, i) == IF i <= Len(s) THEN s[i] ELSE "NUL"

\* s.substr(n)
Substr(s, n) == SubSeq(s, n + 1, Len(s))

\* std::remove_copy(..., c): the characters of s other than c, in order
RECURSIVE RemoveCopy(_, _)
RemoveCopy(s, c) ==
    IF s = <<>> THEN <<>>
    ELSE IF Head(s) = c THEN RemoveCopy(Tail(s), c)
    ELSE <<Head(s)>> \o RemoveCopy(Tail(s), c)

\* the value of a character as a digit, 36 when it is none
DigitValue(c) ==
    CASE c = "0" -> 0 [] c = "1" -> 1 [] c = "2" -> 2 [] c = "3" -> 3
      [] c = "4" -> 4 [] c = "5" -> 5 [] c = "6" -> 6 [] c = "7" -> 7
      [] c = "8" -> 8 [] c = "9" -> 9
      [] c \in {"a", "A"} -> 10 [] c \in {"b", "B"} -> 11
      [] c \in {"c", "C"} -> 12 [] c \in {"d", "D"} -> 13
      [] c \in {"e", "E"} -> 14 [] c \in {"f", "F"} -> 15
      [] OTHER -> 36

\* strtoull's digit loop from s[i] on: the longest run of digits of the base,
\* the value saturating at the largest unsigned integer with ERANGE
RECURSIVE StrtoullDigits(_, _, _, _, _)
StrtoullDigits(s, i, base, acc, erange) ==
    IF i > Len(s) \/ DigitValue(s[i]) >= base
    THEN [value |-> IF erange THEN UINT64_MAX ELSE acc, erange |-> erange]
    ELSE LET next == acc * base + DigitValue(s[i])
         IN  IF erange \/ next > UINT64_MAX
             THEN StrtoullDigits(s, i + 1, base, 0, TRUE)
             ELSE StrtoullDigits(s, i + 1, base, next, FALSE)

\* strtoull(s, 0, base) of the C library: base 0 reads the radix from the
\* text, base 16 skips a 0x prefix that a hex digit follows
Strtoull(s, base) ==
    LET hexPrefix == /\ At(s, 1) = "0"
                     /\ At(s, 2) \in {"x", "X"}
                     /\ DigitValue(At(s, 3)) < 16
        b == IF base # 0 THEN base
             ELSE IF hexPrefix THEN 16
             ELSE IF At(s, 1) = "0" THEN 8
             ELSE 10
        first == IF b = 16 /\ hexPrefix THEN 3 ELSE 1
    IN  StrtoullDigits(s, first, b, 0, FALSE)

\* int64_t r = value: the unsigned value read as two's complement
ToSigned(value) == IF value > INT64_MAX THEN value - 2^IntBits ELSE value

\* Parse::parseExactNumeric: e the node or nullptr, error the reason set
\* ("" when none is), ub whether -r was taken of the least integer
parseExactNumeric(token, negate) ==
    LET s0 == RemoveCopy(token.val, "_")
        binary == At(s0, 2) \in {"b", "B"}
        hex == ~binary /\ At(s0, 2) \in {"x", "X"}
        s == IF binary \/ hex THEN Substr(s0, 2) ELSE s0
        base == IF At(s, 1) = "0" THEN 8
                ELSE IF binary THEN 2
                ELSE IF hex THEN 16
                ELSE 0
        u == Strtoull(s, base)
        r == ToSigned(u.value)
    IN  IF ~u.erange /\ (base # 0 \/ u.value <= INT64_MAX)
        THEN [e |-> Literal(ExactValue(IF negate /\ r # INT64_MIN THEN -r ELSE r)),
              error |-> "", ub |-> negate /\ r = INT64_MIN]
        ELSE IF negate /\ u.value = INT64_MAX + 1
        THEN [e |-> Literal(ExactValue(INT64_MIN)), error |-> "", ub |-> FALSE]
        ELSE [e |-> Null, error |-> "integer literal too big", ub |-> FALSE]

-----------------------------------------------------------------------------
(* Token stream (SelectorToken.h is not part of src/) *)

Tok(type, text) == [type |-> type, val |-> text]

\* the tokeniser: the tokens lexed so far, the cursor into them, whether the
\* last call was nextToken ("read"), returnTokens ("pushed") or none was made
\* ("empty"), and whether returnTokens was called with nothing to return
NewTokeniser == [tokens |-> <<>>, tokp |-> 0, slot |-> "empty", overrun |-> FALSE]

\* the end-of-stream token has been lexed: it is returned for ever
Exhausted(tk) == Len(tk.tokens) > 0 /\ tk.tokens[Len(tk.tokens)].type = "T_EOS"

\* Tokeniser::nextToken: the token at the cursor; at the end of the lexed
\* tokens the next token of the text, fresh, is lexed
NextToken(tk, fresh) ==
    IF tk.tokp < Len(tk.tokens)
    THEN [tk EXCEPT !.tokp = @ + 1, !.slot = "read"]
    ELSE IF Exhausted(tk)
    THEN [tk EXCEPT !.slot = "read"]
    ELSE [tk EXCEPT !.tokens = Append(@, fresh), !.tokp = @ + 1, !.slot = "read"]

\* the token the last nextToken returned
Current(tk) == tk.tokens[tk.tokp]

\* Tokeniser::returnTokens: the token just returned is read again by the next
\* nextToken; with no token just returned the call is undefined
ReturnTokens(tk) ==
    IF tk.slot = "read"
    THEN [tk EXCEPT !.tokp = @ - 1, !.slot = "pushed"]
    ELSE [tk EXCEPT !.overrun = TRUE]

-----------------------------------------------------------------------------
(* The texts the lexer is given *)

\* the decimal digits of n
RECURSIVE DecimalText(_)
DecimalText(n) ==
    LET d == <<"0", "1", "2", "3", "4", "5", "6", "7", "8", "9">>[(n % 10) + 1]
    IN  IF n < 10 THEN <<d>> ELSE DecimalText(n \div 10) \o <<d>>

\* the hexadecimal digits of n
RECURSIVE HexText(_)
HexText(n) ==
    LET d == <<"0", "1", "2", "3", "4", "5", "6", "7", "8", "9",
               "A", "B", "C", "D", "E", "F">>[(n % 16) + 1]
    IN  IF n < 16 THEN <<d>> ELSE HexText(n \div 16) \o <<d>>

Keywords ==
    {Tok("T_NOT", <<"NOT">>), Tok("T_AND", <<"AND">>), Tok("T_OR", <<"OR">>),
     Tok("T_IS", <<"IS">>), Tok("T_NULL", <<"NULL">>), Tok("T_LIKE", <<"LIKE">>),
     Tok("T_ESCAPE", <<"ESCAPE">>), Tok("T_BETWEEN", <<"BETWEEN">>), Tok("T_IN", <<"IN">>),
     Tok("T_TRUE", <<"TRUE">>), Tok("T_FALSE", <<"FALSE">>)}

Punctuation ==
    {Tok("T_LPAREN", <<"(">>), Tok("T_RPAREN", <<")">>), Tok("T_COMMA", <<",">>),
     Tok("T_PLUS", <<"+">>), Tok("T_MINUS", <<"-">>), Tok("T_MULT", <<"*">>),
     Tok("T_DIV", <<"/">>), Tok("T_EQUAL", <<"=">>), Tok("T_NEQ", <<"<", ">">>),
     Tok("T_LESS", <<"<">>), Tok("T_GRT", <<">">>), Tok("T_LSEQ", <<"<", "=">>),
     Tok("T_GREQ", <<">", "=">>)}

IdX == Tok("T_IDENTIFIER", <<"x">>)
Str(text) == Tok("T_STRING", text)
Num(n) == NumericToken(DecimalText(n))
Hex(n) == NumericToken(<<"0", "x">> \o HexText(n))
Approx(text) == Tok("T_NUMERIC_APPROX", text)

Operands ==
    {IdX, Str(<<"s">>), Num(5), Num(INT64_MAX + 1), Approx(<<"2", ".", "0">>)}

\* every kind of token, with one text each
Alphabet == Keywords \cup Punctuation \cup Operands

\* one token of each binary operator level: OR, AND, comparison, additive
\* and multiplicative
BinaryOperators ==
    {Tok("T_OR", <<"OR">>), Tok("T_AND", <<"AND">>), Tok("T_EQUAL", <<"=">>), Tok("T_LESS", <<"<">>),
     Tok("T_PLUS", <<"+">>), Tok("T_MINUS", <<"-">>), Tok("T_MULT", <<"*">>), Tok("T_DIV", <<"/">>)}

\* selectors with two binary operators, and with parentheses, unary
\* operators and NOT among binary operators
PrecedenceScripts ==
    {<<IdX, o1, Num(5), o2, Str(<<"s">>)>> : o1 \in BinaryOperators, o2 \in BinaryOperators}
    \cup
    {<<Num(3), Tok("T_PLUS", <<"+">>), Num(4), Tok("T_MULT", <<"*">>), Num(2)>>,
     <<Tok("T_LPAREN", <<"(">>), Num(3), Tok("T_PLUS", <<"+">>), Num(4), Tok("T_RPAREN", <<")">>),
       Tok("T_MULT", <<"*">>), Num(2)>>,
     <<IdX, Tok("T_MULT", <<"*">>), Tok("T_LPAREN", <<"(">>), IdX, Tok("T_MINUS", <<"-">>), Num(5),
       Tok("T_RPAREN", <<")">>)>>,
     <<Tok("T_LPAREN", <<"(">>), IdX, Tok("T_OR", <<"OR">>), Num(5), Tok("T_RPAREN", <<")">>),
       Tok("T_AND", <<"AND">>), IdX>>,
     <<Tok("T_NOT", <<"NOT">>), IdX, Tok("T_EQUAL", <<"=">>), Num(5), Tok("T_AND", <<"AND">>), IdX>>,
     <<IdX, Tok("T_OR", <<"OR">>), Tok("T_NOT", <<"NOT">>), IdX, Tok("T_LESS", <<"<">>), Num(5)>>,
     <<Tok("T_MINUS", <<"-">>), IdX, Tok("T_MULT", <<"*">>), Num(5)>>,
     <<IdX, Tok("T_MINUS", <<"-">>), Tok("T_MINUS", <<"-">>), IdX, Tok("T_MULT", <<"*">>), Num(5)>>,
     <<IdX, Tok("T_DIV", <<"/">>), Tok("T_MINUS", <<"-">>), Tok("T_LPAREN", <<"(">>), IdX,
       Tok("T_PLUS", <<"+">>), Num(5), Tok("T_RPAREN", <<")">>)>>,
     <<Tok("T_LPAREN", <<"(">>), Tok("T_LPAREN", <<"(">>), IdX, Tok("T_RPAREN", <<")">>),
       Tok("T_RPAREN", <<")">>), Tok("T_PLUS", <<"+">>), Num(5)>>}

\* a unary sign before a parenthesized operand
UnaryScripts ==
    {<<sign, Tok("T_LPAREN", <<"(">>), IdX, Tok("T_RPAREN", <<")">>)>> :
        sign \in {Tok("T_PLUS", <<"+">>), Tok("T_MINUS", <<"-">>)}}

\* what may follow ESCAPE: strings of no, one and two characters, the
\* wildcards, and tokens that are no strings
EscapeArguments ==
    {Str(<<>>), Str(<<"\\">>), Str(<<"s", "s">>), Str(<<"%">>), Str(<<"_">>), Num(5), IdX}

\* LIKE with an ESCAPE argument, and with patterns that hold a + sign
LikeScripts ==
    {<<IdX, Tok("T_LIKE", <<"LIKE">>), Str(<<"s">>), Tok("T_ESCAPE", <<"ESCAPE">>), a>> :
        a \in EscapeArguments}
    \cup {<<IdX, Tok("T_LIKE", <<"LIKE">>), Str(<<"+">>)>>,
          <<IdX, Tok("T_LIKE", <<"LIKE">>), Str(<<"a", "+">>)>>}

\* longer selectors, read beyond MaxTokens
Scripts ==
    PrecedenceScripts \cup UnaryScripts \cup LikeScripts \cup
    {<<Tok("T_MINUS", <<"-">>), Tok("T_LPAREN", <<"(">>), Num(INT64_MAX + 1), Tok("T_RPAREN", <<")">>)>>,
     <<Num(INT64_MAX)>>, <<Num(INT64_MAX + 2)>>, <<Num(UINT64_MAX + 1)>>,
     <<Tok("T_MINUS", <<"-">>), Num(INT64_MAX + 2)>>,
     <<Hex(INT64_MAX)>>, <<Hex(INT64_MAX + 1)>>, <<Hex(UINT64_MAX)>>, <<Hex(UINT64_MAX + 1)>>,
     <<Tok("T_MINUS", <<"-">>), Hex(INT64_MAX + 1)>>,
     <<NumericToken(<<"0", "7">>)>>,
     <<IdX, Tok("T_NOT", <<"NOT">>), Tok("T_IN", <<"IN">>), Tok("T_LPAREN", <<"(">>),
       Str(<<"s">>), Tok("T_COMMA", <<",">>), Num(5), Tok("T_RPAREN", <<")">>)>>,
     <<IdX, Tok("T_BETWEEN", <<"BETWEEN">>), Num(5), Tok("T_AND", <<"AND">>), Num(5),
       Tok("T_OR", <<"OR">>), IdX, Tok("T_LIKE", <<"LIKE">>), Str(<<"s">>),
       Tok("T_ESCAPE", <<"ESCAPE">>), Str(<<"s">>)>>,
     <<IdX, Tok("T_LIKE", <<"LIKE">>), Str(<<"s">>), Tok("T_ESCAPE", <<"ESCAPE">>), Str(<<"s", "s">>)>>,
     <<IdX, Tok("T_LIKE", <<"LIKE">>), Str(<<"s">>), Tok("T_ESCAPE", <<"ESCAPE">>), Str(<<"%">>)>>,
     <<IdX, Tok("T_IS", <<"IS">>), Tok("T_NOT", <<"NOT">>), Tok("T_NULL", <<"NULL">>),
       Tok("T_AND", <<"AND">>), Tok("T_NOT", <<"NOT">>), IdX>>,
     <<Approx(<<"1", "e", "9", "9", "9">>)>>}

\* the tokens the text may continue with after the tokens lexed so far: any
\* token while fewer than MaxTokens were lexed, the next token of a script
\* the lexed tokens begin, and the end of the text
Lex(tk) ==
    LET h == tk.tokens
    IN  IF Exhausted(tk) THEN {EosToken}
        ELSE {EosToken}
             \cup (IF Len(h) < MaxTokens THEN Alphabet ELSE {})
             \cup {sc[Len(h) + 1] : sc \in {c \in Scripts : Len(c) > Len(h) /\ SubSeq(c, 1, Len(h)) = h}}

-----------------------------------------------------------------------------
(* Nodes only the parser builds *)


\* strtod of the C library on the approximate literals of the model: the
\* integer part, and ERANGE when the decimal exponent is beyond a double's
RECURSIVE DecimalValue(_, _)
DecimalValue(s, acc) ==
    IF s = <<>> \/ DigitValue(Head(s)) >= 10 THEN acc
    ELSE DecimalValue(Tail(s), IF acc > 999 THEN acc ELSE acc * 10 + DigitValue(Head(s)))

ExponentOf(s) ==
    IF \E i \in 1..Len(s) : s[i] \in {"e", "E"}
    THEN DecimalValue(Substr(s, CHOOSE i \in 1..Len(s) : s[i] \in {"e", "E"}), 0)
    ELSE 0

Strtod(s) == [value |-> DecimalValue(s, 0), erange |-> ExponentOf(s) > 308]

\* Parse::parseApproxNumeric
parseApproxNumeric(token) ==
    LET d == Strtod(RemoveCopy(token.val, "_"))
    IN  IF ~d.erange THEN [e |-> Literal(InexactValue(d.value)), error |-> "", ub |-> FALSE]
        ELSE [e |-> Null, error |-> "floating literal overflow/underflow", ub |-> FALSE]

-----------------------------------------------------------------------------
(* The parser as a stack machine: one frame per active production *)

Frame(fn) ==
    [fn |-> fn, pc |-> "start", e |-> Null, e1 |-> Null, op |-> "none",
     t |-> EosToken, l |-> <<>>, negated |-> FALSE]

NoException == [tok |-> <<>>, msg |-> "none"]

\* what one step of a production does: call a production (leaving its own
\* frame behind), go on in its frame, return a node, throw, or leave compile
Call(tk, frame, callee) ==
    [act |-> "call", tk |-> tk, frame |-> frame, callee |-> callee, node |-> Null,
     err |-> "", exc |-> NoException, ub |-> FALSE]
Goto(tk, frame) ==
    [act |-> "goto", tk |-> tk, frame |-> frame, callee |-> frame, node |-> Null,
     err |-> "", exc |-> NoException, ub |-> FALSE]
Return(tk, node) ==
    [act |-> "return", tk |-> tk, frame |-> Frame("none"), callee |-> Frame("none"), node |-> node,
     err |-> "", exc |-> NoException, ub |-> FALSE]
Fail(tk, reason) ==
    [act |-> "return", tk |-> tk, frame |-> Frame("none"), callee |-> Frame("none"), node |-> Null,
     err |-> reason, exc |-> NoException, ub |-> FALSE]
ReturnParsed(tk, r) ==
    [act |-> "return", tk |-> tk, frame |-> Frame("none"), callee |-> Frame("none"), node |-> r.e,
     err |-> r.error, exc |-> NoException, ub |-> r.ub]
Finish(tk, b) ==
    [act |-> "finish", tk |-> tk, frame |-> Frame("none"), callee |-> Frame("none"), node |-> b,
     err |-> "", exc |-> NoException, ub |-> FALSE]

\* an exception other than throwParseError's leaves compile
Throw(tk, what) ==
    [act |-> "throw", tk |-> tk, frame |-> Frame("none"), callee |-> Frame("none"),
     node |-> Null, err |-> "", exc |-> [tok |-> <<>>, msg |-> what], ub |-> FALSE]

\* make_unique<LikeExpression>(e1, like, escape), under NOT when negated: the
\* constructor throws std::logic_error from toRegex or std::regex_error
\* from std::regex
NewLikeExpression(tk, negated, e1, like, escape) ==
    IF toRegex_Throws(escape) THEN Throw(tk, "Internal error")
    ELSE IF regex_Throws(toRegex(like, escape)) THEN Throw(tk, "regex_error")
    ELSE [act |-> "return", tk |-> tk, frame |-> Frame("none"), callee |-> Frame("none"),
          node |-> IF negated THEN UnaryBooleanExpression("notOp", LikeExpression(e1, like, escape))
                   ELSE LikeExpression(e1, like, escape),
          err |-> "", exc |-> NoException, ub |-> FALSE]

\* throwParseError: the token last read is returned and read again for its text
throwParseError(tk, msg) ==
    LET tk2 == NextToken(ReturnTokens(tk), EosToken)
    IN  [act |-> "throw", tk |-> tk2, frame |-> Frame("none"), callee |-> Frame("none"),
         node |-> Null, err |-> "", exc |-> [tok |-> Current(tk2).val, msg |-> msg], ub |-> FALSE]

-----------------------------------------------------------------------------
(* The productions: a step runs a frame f from its pc to its next call or
   return; tk is the tokeniser, fresh the token the text continues with, r
   the node the production called last has returned *)

\* make_unique<ConcreteExpression>(root): the object exists whatever root is
ConcreteExpression(root) == [k |-> "ConcreteExpression", expression |-> root]

\* make_selector
make_selector_Step(f, tk, fresh, r, perr) ==
    IF f.pc = "start"
    THEN Call(tk, [f EXCEPT !.pc = "parsed"], Frame("selectorExpression"))
    ELSE LET b == ConcreteExpression(r)
         IN  IF b = Null THEN throwParseError(tk, perr)
             ELSE LET tk1 == NextToken(tk, fresh)
                  IN  IF Current(tk1).type # "T_EOS"
                      THEN throwParseError(tk1, "extra input")
                      ELSE Finish(tk1, b)

\* Parse::selectorExpression
selectorExpression_Step(f, tk, fresh, r) ==
    IF f.pc = "start"
    THEN LET tk1 == NextToken(tk, fresh)
         IN  IF Current(tk1).type = "T_EOS"
             THEN Return(tk1, Literal(BoolValue(TRUE)))
             ELSE Call(ReturnTokens(tk1), [f EXCEPT !.pc = "or"], Frame("orExpression"))
    ELSE Return(tk, r)

\* the loop that returns the token that ends it twice
BooleanLoop_ReturnTwice(f, tk, fresh, e, keyword, operand) ==
    LET tk1 == NextToken(tk, fresh)
    IN  IF Current(tk1).type = keyword
        THEN Call(tk1, [f EXCEPT !.pc = "operand", !.e = e], Frame(operand))
        ELSE Return(ReturnTokens(ReturnTokens(tk1)), e)

\* the loop of orExpression / andExpression with e built so far: another
\* operand after the keyword, else the token is returned and e is the result
BooleanLoop(f, tk, fresh, e, keyword, operand) ==
    LET tk1 == NextToken(tk, fresh)
    IN  IF Current(tk1).type = keyword
        THEN Call(tk1, [f EXCEPT !.pc = "operand", !.e = e], Frame(operand))
        ELSE Return(ReturnTokens(tk1), e)

\* Parse::orExpression
orExpression_Step(f, tk, fresh, r) ==
    CASE f.pc = "start" -> Call(tk, [f EXCEPT !.pc = "first"], Frame("andExpression"))
      [] f.pc = "first" ->
            IF r = Null THEN Return(tk, Null)
            ELSE BooleanLoop(f, tk, fresh, r, "T_OR", "andExpression")
      [] f.pc = "operand" ->
            IF r = Null THEN Return(tk, Null)
            ELSE BooleanLoop(f, tk, fresh, OrExpression(f.e, r), "T_OR", "andExpression")

\* Parse::andExpression
andExpression_Step(f, tk, fresh, r) ==
    CASE f.pc = "start" -> Call(tk, [f EXCEPT !.pc = "first"], Frame("comparisonExpression"))
      [] f.pc = "first" ->
            IF r = Null THEN Return(tk, Null)
            ELSE BooleanLoop(f, tk, fresh, r, "T_AND", "comparisonExpression")
      [] f.pc = "operand" ->
            IF r = Null THEN Return(tk, Null)
            ELSE BooleanLoop(f, tk, fresh, AndExpression(f.e, r), "T_AND", "comparisonExpression")

\* the node of a special comparison, under NOT when negated
Negated(negated, node) ==
    IF negated THEN UnaryBooleanExpression("notOp", node) ELSE node

\* Parse::specialComparisons(tokeniser, e1, negated): e1 is f.e1
specialComparisons_Step(f, tk, fresh, r) ==
    CASE f.pc = "start" ->
            LET tk1 == NextToken(tk, fresh)
                type == Current(tk1).type
            IN  CASE type = "T_LIKE" -> Goto(tk1, [f EXCEPT !.pc = "like"])
                  [] type = "T_BETWEEN" ->
                        Call(tk1, [f EXCEPT !.pc = "lower"], Frame("addExpression"))
                  [] type = "T_IN" -> Goto(tk1, [f EXCEPT !.pc = "in"])
                  [] OTHER -> Fail(tk1, "expected LIKE, IN or BETWEEN")
      [] f.pc = "like" ->
            LET tk1 == NextToken(tk, fresh)
            IN  IF Current(tk1).type # "T_STRING"
                THEN Fail(tk1, "expected string after LIKE")
                ELSE Goto(tk1, [f EXCEPT !.pc = "escape", !.t = Current(tk1)])
      [] f.pc = "escape" ->
            LET tk1 == NextToken(tk, fresh)
            IN  IF Current(tk1).type = "T_ESCAPE"
                THEN Goto(tk1, [f EXCEPT !.pc = "escapeString"])
                ELSE NewLikeExpression(ReturnTokens(tk1), f.negated, f.e1, f.t.val, <<>>)
      [] f.pc = "escapeString" ->
            LET tk1 == NextToken(tk, fresh)
                e == Current(tk1)
            IN  IF e.type # "T_STRING"
                THEN Fail(tk1, "expected string after ESCAPE")
                ELSE IF Len(e.val) > 1
                THEN throwParseError(tk1, "single character string required after ESCAPE")
                ELSE IF e.val = <<"%">> \/ e.val = <<"_">>
                THEN throwParseError(tk1, "'%' and '_' are not allowed as ESCAPE characters")
                ELSE NewLikeExpression(tk1, f.negated, f.e1, f.t.val, e.val)
      [] f.pc = "lower" ->
            IF r = Null THEN Return(tk, Null)
            ELSE LET tk1 == NextToken(tk, fresh)
                 IN  IF Current(tk1).type # "T_AND"
                     THEN Fail(tk1, "expected AND after BETWEEN")
                     ELSE Call(tk1, [f EXCEPT !.pc = "upper", !.e = r], Frame("addExpression"))
      [] f.pc = "upper" ->
            IF r = Null THEN Return(tk, Null)
            ELSE Return(tk, Negated(f.negated, BetweenExpression(f.e1, f.e, r)))
      [] f.pc = "in" ->
            LET tk1 == NextToken(tk, fresh)
            IN  IF Current(tk1).type # "T_LPAREN"
                THEN Fail(tk1, "missing '(' after IN")
                ELSE Call(tk1, [f EXCEPT !.pc = "item"], Frame("addExpression"))
      [] f.pc = "item" ->
            IF r = Null THEN Return(tk, Null)
            ELSE LET list == Append(f.l, r)
                     tk1 == NextToken(tk, fresh)
                 IN  IF Current(tk1).type = "T_COMMA"
                     THEN Call(tk1, [f EXCEPT !.l = list], Frame("addExpression"))
                     ELSE LET tk2 == NextToken(ReturnTokens(tk1), fresh)
                          IN  IF Current(tk2).type # "T_RPAREN"
                              THEN Fail(tk2, "missing ',' or ')' after IN")
                              ELSE IF f.negated
                              THEN Return(tk2, NotInExpression(f.e1, list))
                              ELSE Return(tk2, InExpression(f.e1, list))

\* the comparison operator of a token, "none" for any other token
ComparisonOperatorOf(type) ==
    CASE type = "T_EQUAL" -> "eqOp"
      [] type = "T_NEQ" -> "neqOp"
      [] type = "T_LESS" -> "lsOp"
      [] type = "T_GRT" -> "grOp"
      [] type = "T_LSEQ" -> "lseqOp"
      [] type = "T_GREQ" -> "greqOp"
      [] OTHER -> "none"

\* Parse::comparisonExpression
comparisonExpression_Step(f, tk, fresh, r) ==
    CASE f.pc = "start" ->
            LET tk1 == NextToken(tk, fresh)
            IN  IF Current(tk1).type = "T_NOT"
                THEN Call(tk1, [f EXCEPT !.pc = "not"], Frame("comparisonExpression"))
                ELSE Call(ReturnTokens(tk1), [f EXCEPT !.pc = "e1"], Frame("addExpression"))
      [] f.pc = "not" ->
            IF r = Null THEN Return(tk, Null)
            ELSE Return(tk, UnaryBooleanExpression("notOp", r))
      [] f.pc = "e1" ->
            IF r = Null THEN Return(tk, Null)
            ELSE LET tk1 == NextToken(tk, fresh)
                     type == Current(tk1).type
                 IN  CASE type = "T_IS" -> Goto(tk1, [f EXCEPT !.pc = "is", !.e1 = r])
                       [] type = "T_NOT" ->
                             Call(tk1, [f EXCEPT !.pc = "special"],
                                  [Frame("specialComparisons") EXCEPT !.e1 = r, !.negated = TRUE])
                       [] type \in {"T_BETWEEN", "T_LIKE", "T_IN"} ->
                             Call(ReturnTokens(tk1), [f EXCEPT !.pc = "special"],
                                  [Frame("specialComparisons") EXCEPT !.e1 = r])
                       [] OTHER ->
                             LET tk2 == NextToken(ReturnTokens(tk1), fresh)
                                 op == ComparisonOperatorOf(Current(tk2).type)
                             IN  IF op = "none"
                                 THEN Return(ReturnTokens(tk2), r)
                                 ELSE Call(tk2, [f EXCEPT !.pc = "e2", !.e1 = r, !.op = op],
                                           Frame("addExpression"))
      [] f.pc = "is" ->
            LET tk1 == NextToken(tk, fresh)
                type == Current(tk1).type
            IN  CASE type = "T_NULL" -> Return(tk1, UnaryBooleanExpression("isNullOp", f.e1))
                  [] type = "T_NOT" -> Goto(tk1, [f EXCEPT !.pc = "isNot"])
                  [] OTHER -> Fail(tk1, "expected NULL or NOT NULL after IS")
      [] f.pc = "isNot" ->
            LET tk1 == NextToken(tk, fresh)
            IN  IF Current(tk1).type = "T_NULL"
                THEN Return(tk1, UnaryBooleanExpression("isNonNullOp", f.e1))
                ELSE Fail(tk1, "expected NULL or NOT NULL after IS")
      [] f.pc = "special" -> Return(tk, r)
      [] f.pc = "e2" ->
            IF r = Null THEN Return(tk, Null)
            ELSE Return(tk, ComparisonExpression(f.op, f.e1, r))

\* the loop that, on a token that is no operator of its own, returns the
\* token and reads it again
ArithmeticLoop_Reread(f, tk, fresh, e, ops, operand) ==
    LET tk1 == NextToken(tk, fresh)
        type == Current(tk1).type
    IN  IF type \in DOMAIN ops
        THEN Call(tk1, [f EXCEPT !.pc = "operand", !.e = e, !.op = ops[type]], Frame(operand))
        ELSE Goto(ReturnTokens(tk1), [f EXCEPT !.negated = ~@])

\* the loop of addExpression / multiplyExpression with e built so far
ArithmeticLoop(f, tk, fresh, e, ops, operand) ==
    LET tk1 == NextToken(tk, fresh)
        type == Current(tk1).type
    IN  IF type \in DOMAIN ops
        THEN Call(tk1, [f EXCEPT !.pc = "operand", !.e = e, !.op = ops[type]], Frame(operand))
        ELSE Return(ReturnTokens(tk1), e)

AddOps == [T_PLUS |-> "add", T_MINUS |-> "sub"]
MultiplyOps == [T_MULT |-> "mult", T_DIV |-> "div"]

\* Parse::addExpression
addExpression_Step(f, tk, fresh, r) ==
    CASE f.pc = "start" -> Call(tk, [f EXCEPT !.pc = "first"], Frame("multiplyExpression"))
      [] f.pc = "first" ->
            IF r = Null THEN Return(tk, Null)
            ELSE ArithmeticLoop(f, tk, fresh, r, AddOps, "multiplyExpression")
      [] f.pc = "operand" ->
            IF r = Null THEN Return(tk, Null)
            ELSE ArithmeticLoop(f, tk, fresh, ArithmeticExpression(f.op, f.e, r),
                                AddOps, "multiplyExpression")

\* multiplyExpression that takes the additive operators as its own
multiplyExpression_Step_Additive(f, tk, fresh, r) ==
    CASE f.pc = "start" -> Call(tk, [f EXCEPT !.pc = "first"], Frame("unaryArithExpression"))
      [] f.pc = "first" ->
            IF r = Null THEN Return(tk, Null)
            ELSE ArithmeticLoop(f, tk, fresh, r, AddOps @@ MultiplyOps, "unaryArithExpression")
      [] f.pc = "operand" ->
            IF r = Null THEN Return(tk, Null)
            ELSE ArithmeticLoop(f, tk, fresh, ArithmeticExpression(f.op, f.e, r),
                                AddOps @@ MultiplyOps, "unaryArithExpression")

\* Parse::multiplyExpression
multiplyExpression_Step(f, tk, fresh, r) ==
    CASE f.pc = "start" -> Call(tk, [f EXCEPT !.pc = "first"], Frame("unaryArithExpression"))
      [] f.pc = "first" ->
            IF r = Null THEN Return(tk, Null)
            ELSE ArithmeticLoop(f, tk, fresh, r, MultiplyOps, "unaryArithExpression")
      [] f.pc = "operand" ->
            IF r = Null THEN Return(tk, Null)
            ELSE ArithmeticLoop(f, tk, fresh, ArithmeticExpression(f.op, f.e, r),
                                MultiplyOps, "unaryArithExpression")

\* Parse::unaryArithExpression
unaryArithExpression_Step(f, tk, fresh, r) ==
    CASE f.pc = "start" ->
            LET tk1 == NextToken(tk, fresh)
                type == Current(tk1).type
            IN  CASE type = "T_LPAREN" ->
                        Call(tk1, [f EXCEPT !.pc = "paren"], Frame("orExpression"))
                  [] type = "T_PLUS" ->
                        Call(tk1, [f EXCEPT !.pc = "primary"], Frame("primaryExpression"))
                  [] type = "T_MINUS" -> Goto(tk1, [f EXCEPT !.pc = "minus"])
                  [] OTHER ->
                        Call(ReturnTokens(tk1), [f EXCEPT !.pc = "primary"],
                             Frame("primaryExpression"))
      [] f.pc = "paren" ->
            IF r = Null THEN Return(tk, Null)
            ELSE LET tk1 == NextToken(tk, fresh)
                 IN  IF Current(tk1).type # "T_RPAREN"
                     THEN Fail(tk1, "missing ')' after '('")
                     ELSE Return(tk1, r)
      [] f.pc = "minus" ->
            LET tk1 == NextToken(tk, fresh)
            IN  IF Current(tk1).type = "T_NUMERIC_EXACT"
                THEN ReturnParsed(tk1, parseExactNumeric(Current(tk1), TRUE))
                ELSE Call(ReturnTokens(tk1), [f EXCEPT !.pc = "negated"],
                          Frame("unaryArithExpression"))
      [] f.pc = "negated" ->
            IF r = Null THEN Return(tk, Null)
            ELSE Return(tk, UnaryArithExpression("negate", r))
      [] f.pc = "primary" -> Return(tk, r)

\* Parse::primaryExpression
primaryExpression_Step(f, tk, fresh, r) ==
    LET tk1 == NextToken(tk, fresh)
        t == Current(tk1)
    IN  CASE t.type = "T_IDENTIFIER" -> Return(tk1, Identifier(t.val))
          [] t.type = "T_STRING" -> Return(tk1, StringLiteral(t.val))
          [] t.type = "T_FALSE" -> Return(tk1, Literal(BoolValue(FALSE)))
          [] t.type = "T_TRUE" -> Return(tk1, Literal(BoolValue(TRUE)))
          [] t.type = "T_NUMERIC_EXACT" -> ReturnParsed(tk1, parseExactNumeric(t, FALSE))
          [] t.type = "T_NUMERIC_APPROX" -> ReturnParsed(tk1, parseApproxNumeric(t))
          [] OTHER -> Fail(tk1, "expected literal or identifier")

-----------------------------------------------------------------------------
(* Evaluating compiled expressions against environments *)

\* the properties an environment may carry: x, and one per list position
ListProp(i) == <<"v", i>>
NProps == IF MaxList < 2 THEN 2 ELSE MaxList
Props == {<<"x">>} \cup {ListProp(i) : i \in 1..NProps}
MissingProp == <<"m">>

Values ==
    {UnknownValue, BoolValue(TRUE), BoolValue(FALSE),
     StringValue(<<"s">>), StringValue(<<"t">>),
     ExactValue(1), ExactValue(2), InexactValue(1)}

Envs == [Props -> Values]

X == Identifier(<<"x">>)
V(i) == Identifier(ListProp(i))
ListOf(n) == [i \in 1..n |-> V(i)]

\* roots the parser builds over identifiers; the properties' values range
\* over every type, so each operand takes every value
Exprs ==
    {X, OrExpression(X, V(1)), AndExpression(X, V(1)),
     UnaryBooleanExpression("notOp", X),
     UnaryBooleanExpression("isNullOp", X),
     UnaryBooleanExpression("isNonNullOp", X),
     BetweenExpression(X, V(1), V(2)),
     UnaryBooleanExpression("notOp", BetweenExpression(X, V(1), V(2))),
     AndExpression(ComparisonExpression("eqOp", X, V(1)),
                   UnaryBooleanExpression("isNullOp", V(2))),
     OrExpression(ComparisonExpression("lsOp", X, V(1)),
                  UnaryBooleanExpression("notOp", V(2)))}
    \cup {ComparisonExpression(o, X, V(1)) : o \in ComparisonOps}
    \cup {ComparisonExpression(o, Identifier(MissingProp), Literal(ExactValue(5))) :
            o \in ComparisonOps}
    \cup {ComparisonExpression(o, StringLiteral(<<"s">>), Literal(ExactValue(5))) :
            o \in ComparisonOps}
    \cup {InExpression(X, ListOf(n)) : n \in 1..MaxList}
    \cup {NotInExpression(X, ListOf(n)) : n \in 1..MaxList}

-----------------------------------------------------------------------------
(* compile: make_selector run on a text that is lexed as it is read *)

Top == stack[Len(stack)]
Rest == SubSeq(stack, 1, Len(stack) - 1)

Active(fn) == outcome = "parsing" /\ stack # <<>> /\ Top.fn = fn

\* the state after a step: a returnTokens with nothing to return, and the
\* negation of the least integer, are undefined behaviour, after which
\* compile may do anything
Apply(eff) ==
    \E done \in {eff} :
        /\ tokeniser' = done.tk
        /\ stack' = CASE done.act = "call" -> Rest \o <<done.frame, done.callee>>
                      [] done.act = "goto" -> Rest \o <<done.frame>>
                      [] done.act = "return" -> Rest
                      [] OTHER -> <<>>
        /\ ret' = IF done.act = "return" THEN done.node ELSE ret
        /\ error' = IF done.err # "" THEN done.err ELSE error
        /\ outcome' \in
              IF done.tk.overrun THEN {"undefined"}
              ELSE {CASE done.act = "finish" -> "returned"
                      [] done.act = "throw" -> "thrown"
                      [] OTHER -> "parsing"}
                   \cup (IF done.ub THEN {"undefined"} ELSE {})
        /\ compiled' = IF done.act = "finish" THEN done.node ELSE compiled
        /\ exception' = IF done.act = "throw" THEN done.exc ELSE exception
        /\ UNCHANGED <<evalVars, numVars>>

make_selector ==
    /\ Active("make_selector")
    /\ \E fresh \in Lex(tokeniser) : Apply(make_selector_Step(Top, tokeniser, fresh, ret, error))

selectorExpression ==
    /\ Active("selectorExpression")
    /\ \E fresh \in Lex(tokeniser) : Apply(selectorExpression_Step(Top, tokeniser, fresh, ret))

orExpression ==
    /\ Active("orExpression")
    /\ \E fresh \in Lex(tokeniser) : Apply(orExpression_Step(Top, tokeniser, fresh, ret))

andExpression ==
    /\ Active("andExpression")
    /\ \E fresh \in Lex(tokeniser) : Apply(andExpression_Step(Top, tokeniser, fresh, ret))

comparisonExpression ==
    /\ Active("comparisonExpression")
    /\ \E fresh \in Lex(tokeniser) : Apply(comparisonExpression_Step(Top, tokeniser, fresh, ret))

specialComparisons ==
    /\ Active("specialComparisons")
    /\ \E fresh \in Lex(tokeniser) : Apply(specialComparisons_Step(Top, tokeniser, fresh, ret))

addExpression ==
    /\ Active("addExpression")
    /\ \E fresh \in Lex(tokeniser) : Apply(addExpression_Step(Top, tokeniser, fresh, ret))

multiplyExpression ==
    /\ Active("multiplyExpression")
    /\ \E fresh \in Lex(tokeniser) : Apply(multiplyExpression_Step(Top, tokeniser, fresh, ret))

unaryArithExpression ==
    /\ Active("unaryArithExpression")
    /\ \E fresh \in Lex(tokeniser) : Apply(unaryArithExpression_Step(Top, tokeniser, fresh, ret))

primaryExpression ==
    /\ Active("primaryExpression")
    /\ \E fresh \in Lex(tokeniser) : Apply(primaryExpression_Step(Top, tokeniser, fresh, ret))

\* no compile is running
ParserIdle ==
    /\ tokeniser = NewTokeniser
    /\ stack = <<>>
    /\ ret = Null
    /\ error = ""
    /\ outcome = "idle"
    /\ compiled = Null
    /\ exception = NoException

\* no expression is being evaluated
EvalIdle ==
    /\ expr = Null
    /\ env = [p \in Props |-> UnknownValue]
    /\ bn = BN_UNKNOWN
    /\ matched = FALSE
    /\ phase = "idle"

\* no numeric token is being compiled
NumIdle == numTok = EosToken /\ numNeg = FALSE /\ numRes = NotCalled

Init ==
    /\ tokeniser = NewTokeniser
    /\ stack = <<Frame("make_selector")>>
    /\ ret = Null
    /\ error = ""
    /\ outcome = "parsing"
    /\ compiled = Null
    /\ exception = NoException
    /\ EvalIdle
    /\ NumIdle

Next ==
    \/ make_selector
    \/ selectorExpression
    \/ orExpression
    \/ andExpression
    \/ comparisonExpression
    \/ specialComparisons
    \/ addExpression
    \/ multiplyExpression
    \/ unaryArithExpression
    \/ primaryExpression

Spec == Init /\ [][Next]_vars

\* compile runs on: a production that can take a step takes one
SpecFair == Init /\ [][Next]_vars /\ WF_vars(Next)

-----------------------------------------------------------------------------
(* Evaluation of a compiled expression *)

InitEval ==
    /\ expr \in Exprs
    /\ env = [p \in Props |-> UnknownValue]
    /\ bn = BN_UNKNOWN
    /\ matched = FALSE
    /\ phase = "compiled"
    /\ NumIdle
    /\ ParserIdle

\* Expression.evaluate(env): ConcreteExpression::eval on the root, for the
\* properties of one message
EvaluateOn(en) ==
    /\ phase = "compiled"
    /\ env' = en
    /\ bn' = eval_bool(expr, en)
    /\ matched' = ConcreteExpression_eval(expr, en)
    /\ phase' = "evaluated"
    /\ UNCHANGED <<expr, numVars, parseVars>>

Evaluate == \E en \in Envs : EvaluateOn(en)

NextEval == Evaluate

SpecEval == InitEval /\ [][NextEval]_vars

-----------------------------------------------------------------------------
(* The evaluator's claims, checked under SpecEval *)

Evaluated(kind) == phase = "evaluated" /\ expr.k = kind

\* the tri-state tables as the specification words them
AndLaw(a, b) ==
    IF a = BN_FALSE \/ b = BN_FALSE THEN BN_FALSE
    ELSE IF a = BN_TRUE /\ b = BN_TRUE THEN BN_TRUE
    ELSE BN_UNKNOWN

OrLaw(a, b) ==
    IF a = BN_TRUE \/ b = BN_TRUE THEN BN_TRUE
    ELSE IF a = BN_FALSE /\ b = BN_FALSE THEN BN_FALSE
    ELSE BN_UNKNOWN

NotLaw(a) ==
    CASE a = BN_TRUE -> BN_FALSE
      [] a = BN_FALSE -> BN_TRUE
      [] a = BN_UNKNOWN -> BN_UNKNOWN

\* C2: an AND node is False if either operand is False, True only if both
\* are True, Unknown otherwise; an OR node is True if either operand is True,
\* False only if both are False, Unknown otherwise; NOT swaps True and False
\* and keeps Unknown.
C2_TriStateLaws ==
    /\ Evaluated("AndExpression") =>
           bn = AndLaw(eval_bool(expr.e1, env), eval_bool(expr.e2, env))
    /\ Evaluated("OrExpression") =>
           bn = OrLaw(eval_bool(expr.e1, env), eval_bool(expr.e2, env))
    /\ (Evaluated("UnaryBooleanExpression") /\ expr.op = "notOp") =>
           bn = NotLaw(eval_bool(expr.e1, env))

\* an AND of an Unknown and a False operand has been evaluated to False
C2_Witness ==
    /\ Evaluated("AndExpression")
    /\ eval_bool(expr.e1, env) = BN_UNKNOWN
    /\ eval_bool(expr.e2, env) = BN_FALSE
    /\ bn = BN_FALSE

IsMissingComparison(e) ==
    /\ e.k = "ComparisonExpression"
    /\ e.e1 = Identifier(MissingProp)
    /\ e.e2 = Literal(ExactValue(5))

\* C3: evaluate returns true exactly when the root's tri-state result is
\* True, and a comparison of a property the environment lacks with 5
\* evaluates to false, for each of the six comparison operators.
C3_EvaluateOnlyTrue ==
    phase = "evaluated" =>
        /\ matched = (bn = BN_TRUE)
        /\ IsMissingComparison(expr) => (bn = BN_UNKNOWN /\ matched = FALSE)

\* a comparison of the missing property has been evaluated to Unknown, and
\* the expression reported false
C3_Witness ==
    /\ phase = "evaluated"
    /\ IsMissingComparison(expr)
    /\ expr.op = "eqOp"
    /\ bn = BN_UNKNOWN
    /\ matched = FALSE

\* both operands of the evaluated comparison are known and of types that
\* cannot be compared
IncompatibleComparison ==
    /\ Evaluated("ComparisonExpression")
    /\ ~unknown(eval(expr.e1, env))
    /\ ~unknown(eval(expr.e2, env))
    /\ ~Comparable(eval(expr.e1, env), eval(expr.e2, env))

ListValues(e) == [i \in 1..Len(e.l) |-> eval(e.l[i], env)]

InLaw(x, vs) ==
    IF \E i \in 1..Len(vs) : ValueEq(x, vs[i]) THEN BN_TRUE
    ELSE IF unknown(x) \/ \E i \in 1..Len(vs) : unknown(vs[i]) THEN BN_UNKNOWN
    ELSE BN_FALSE

\* C5: x IN (v1..vn) is True if x equals any vi, Unknown if none equals x
\* and x or some vi is unknown, False otherwise.
C5_InLaw ==
    Evaluated("InExpression") => bn = InLaw(eval(expr.e, env), ListValues(expr))

\* x has been found in a list whose first element is unknown
C5_Witness ==
    /\ Evaluated("InExpression")
    /\ Len(expr.l) = 2
    /\ unknown(eval(expr.l[1], env))
    /\ ValueEq(eval(expr.e, env), eval(expr.l[2], env))
    /\ bn = BN_TRUE

\* a known list value whose type is neither x's nor numeric with x
Incompatible(x, v) == ~unknown(v) /\ ~sameType(x, v) /\ ~(numeric(x) /\ numeric(v))

\* NOT IN as claimed: an incompatible vi gives False unless a later vi is unknown
NotInClaimed(x, vs) ==
    IF unknown(x) THEN BN_UNKNOWN
    ELSE IF \E i \in 1..Len(vs) : ValueEq(x, vs[i]) THEN BN_FALSE
    ELSE IF \E i \in 1..Len(vs) : Incompatible(x, vs[i])
         THEN IF \E i \in 1..Len(vs) :
                     /\ Incompatible(x, vs[i])
                     /\ \E j \in (i + 1)..Len(vs) : unknown(vs[j])
              THEN BN_UNKNOWN
              ELSE BN_FALSE
    ELSE IF \E i \in 1..Len(vs) : unknown(vs[i]) THEN BN_UNKNOWN
    ELSE BN_TRUE

\* NOT IN as amended: an incompatible vi gives False unless any vi is unknown
NotInLaw(x, vs) ==
    IF unknown(x) THEN BN_UNKNOWN
    ELSE IF \E i \in 1..Len(vs) : ValueEq(x, vs[i]) THEN BN_FALSE
    ELSE IF \E i \in 1..Len(vs) : unknown(vs[i]) THEN BN_UNKNOWN
    ELSE IF \E i \in 1..Len(vs) : Incompatible(x, vs[i]) THEN BN_FALSE
    ELSE BN_TRUE

C7_BetweenLaw ==
    Evaluated("BetweenExpression") =>
        LET x == eval(expr.e, env)
            a == eval(expr.l, env)
            b == eval(expr.u, env)
        IN  IF unknown(x) \/ unknown(a) \/ unknown(b)
            THEN bn = BN_UNKNOWN
            ELSE /\ bn \in {BN_TRUE, BN_FALSE}
                 /\ bn = BN_TRUE <=> (ValueGe(x, a) /\ ValueLe(x, b))

\* a known x within known bounds of the other numeric type
C7_Witness ==
    /\ Evaluated("BetweenExpression")
    /\ eval(expr.e, env) = InexactValue(1)
    /\ eval(expr.l, env) = ExactValue(1)
    /\ eval(expr.u, env) = ExactValue(2)
    /\ bn = BN_TRUE

\* C8: x IS NULL is True exactly when x is the unknown value and False
\* otherwise; x IS NOT NULL is its negation; neither is ever Unknown.
C8_IsNullTotal ==
    /\ (Evaluated("UnaryBooleanExpression") /\ expr.op = "isNullOp") =>
           bn = IF unknown(eval(expr.e1, env)) THEN BN_TRUE ELSE BN_FALSE
    /\ (Evaluated("UnaryBooleanExpression") /\ expr.op = "isNonNullOp") =>
           bn = IF unknown(eval(expr.e1, env)) THEN BN_FALSE ELSE BN_TRUE

\* IS NOT NULL of a known value that is not a boolean has been evaluated to True
C8_Witness ==
    /\ Evaluated("UnaryBooleanExpression")
    /\ expr.op = "isNonNullOp"
    /\ eval(expr.e1, env).t = "T_STRING"
    /\ bn = BN_TRUE

-----------------------------------------------------------------------------
(* Compiling exact-numeric tokens *)

\* digit strings of 1..MaxDigits characters over ds, with _ allowed inside
DigitStrings(ds) ==
    UNION {{d \in [1..n -> ds \cup {"_"}] : d[1] # "_" /\ d[n] # "_"} : n \in 1..MaxDigits}

\* the texts the lexer passes as exact-numeric tokens:
\* "0x" HexDigit+ | "0b" BinDigit+ | "0" OctDigit* | Digit+
NumericTexts ==
    {<<"0", x>> \o d : x \in {"x", "X"}, d \in DigitStrings({"0", "1", "7", "F"})}
    \cup {<<"0", b>> \o d : b \in {"b", "B"}, d \in DigitStrings({"0", "1"})}
    \cup DigitStrings({"0", "1", "3", "7"})

InitNum ==
    /\ numTok \in {NumericToken(t) : t \in NumericTexts}
    /\ numNeg \in BOOLEAN
    /\ numRes = NotCalled
    /\ EvalIdle
    /\ ParserIdle

\* a call of parseExactNumeric; negating the least integer is undefined
\* behaviour, after which the call may as well not return
ParseExactNumeric ==
    /\ numRes = NotCalled
    /\ LET r == parseExactNumeric(numTok, numNeg)
       IN  numRes' \in {[e |-> r.e, error |-> r.error]}
                         \cup (IF r.ub THEN {[e |-> Null, error |-> "undefined"]} ELSE {})
    /\ UNCHANGED <<evalVars, numTok, numNeg, parseVars>>

NextNum == ParseExactNumeric

SpecNum == InitNum /\ [][NextNum]_vars

\* the radix the prefix of a token's text chooses, and the digits after it
RadixOf(text) ==
    IF At(text, 1) = "0" /\ At(text, 2) \in {"x", "X"} THEN 16
    ELSE IF At(text, 1) = "0" /\ At(text, 2) \in {"b", "B"} THEN 2
    ELSE IF At(text, 1) = "0" THEN 8
    ELSE 10

DigitsOf(text) ==
    RemoveCopy(IF RadixOf(text) \in {16, 2} THEN Substr(text, 2) ELSE text, "_")

\* the digits read in the radix; 2^IntBits when the value does not fit
RECURSIVE RadixValue(_, _, _)
RadixValue(ds, radix, acc) ==
    IF ds = <<>> THEN acc
    ELSE IF acc * radix + DigitValue(Head(ds)) > UINT64_MAX THEN UINT64_MAX + 1
    ELSE RadixValue(Tail(ds), radix, acc * radix + DigitValue(Head(ds)))

ValueOfText(text) == RadixValue(DigitsOf(text), RadixOf(text), 0)

\* every digit of the text is a digit of its radix
WellFormed(text) == \A i \in 1..Len(DigitsOf(text)) : DigitValue(DigitsOf(text)[i]) < RadixOf(text)

\* C9: the literal compiled from an in-range exact-numeric token has the
\* value of the token's digits, with _ removed, in the radix its prefix
\* chooses, whatever the first digit after the prefix is.
C9_LiteralValueInRadix ==
    (numRes # NotCalled /\ ~numNeg /\ WellFormed(numTok.val) /\ ValueOfText(numTok.val) <= INT64_MAX) =>
        numRes.e = Literal(ExactValue(ValueOfText(numTok.val)))

-----------------------------------------------------------------------------
(* The compiler's claims, checked under Spec *)

\* compile has ended, by a return or by a throw
Ended == outcome \in {"returned", "thrown"}

\* C1: compile returns an Expression only when the selector production built
\* a root node and the tokens are at end-of-stream; when a production
\* returned the failure marker, or tokens remain, compile throws the error
\* with the parser's reason, and never returns an Expression without a root.
C1_CompileAllOrNothing ==
    /\ outcome = "returned" =>
          /\ ret # Null
          /\ compiled = ConcreteExpression(ret)
          /\ Current(tokeniser).type = "T_EOS"
    /\ (Ended /\ ret = Null) =>
          /\ outcome = "thrown"
          /\ exception.msg = error

\* the tokens of the text compiled when the lexer has reached its end, without
\* the end-of-stream token; the empty sequence before that
Selector ==
    LET n == Len(tokeniser.tokens)
    IN  IF n > 0 /\ tokeniser.tokens[n].type = "T_EOS" THEN SubSeq(tokeniser.tokens, 1, n - 1) ELSE <<>>

Minus == Tok("T_MINUS", <<"-">>)
Plus == Tok("T_PLUS", <<"+">>)
LParen == Tok("T_LPAREN", <<"(">>)
RParen == Tok("T_RPAREN", <<")">>)

\* compile of the text whose tokens are S has ended: it has read S and the
\* end of the text, or has stopped after the first tokens of them
Compiled(S) ==
    /\ Ended
    /\ Len(tokeniser.tokens) <= Len(S) + 1
    /\ tokeniser.tokens = SubSeq(S \o <<EosToken>>, 1, Len(tokeniser.tokens))

\* the text compiled is the one exact-numeric token n, alone, directly after
\* a unary minus, or after a minus and a parenthesis or a unary plus
LiteralAlone(n) == Compiled(<<n>>)
LiteralAfterMinus(n) == Compiled(<<Minus, n>>)
LiteralApart(n) == Compiled(<<Minus, LParen, n, RParen>>) \/ Compiled(<<Minus, Plus, n>>)

\* C10: an exact-numeric literal in any radix compiles only if its value is
\* at most INT64_MAX, but for INT64_MAX+1 directly after a unary minus, which
\* compiles to INT64_MIN; every other literal above INT64_MAX fails to
\* compile with "integer literal too big", also when parentheses or a unary
\* plus separate the minus from it.
C10_LiteralRange ==
    \A n \in {t \in Range(tokeniser.tokens) : t.type = "T_NUMERIC_EXACT"} :
        (Ended /\ WellFormed(n.val) /\ (LiteralAlone(n) \/ LiteralAfterMinus(n) \/ LiteralApart(n))) =>
            LET v == ValueOfText(n.val)
                least == LiteralAfterMinus(n) /\ v = INT64_MAX + 1
            IN  /\ (outcome = "returned" /\ ret # Null) => (v <= INT64_MAX \/ least)
                /\ least => (outcome = "returned" /\ ret = Literal(ExactValue(INT64_MIN)))
                /\ (v > INT64_MAX /\ ~least) =>
                       (outcome = "thrown" /\ exception.msg = "integer literal too big")

-----------------------------------------------------------------------------
(* Precedence: the tree a selector stands for *)

\* the precedence level of a token as a binary operator, 0 for other tokens
LevelOf(type) ==
    CASE type = "T_OR" -> 1
      [] type = "T_AND" -> 2
      [] type \in {"T_EQUAL", "T_NEQ", "T_LESS", "T_GRT", "T_LSEQ", "T_GREQ"} -> 4
      [] type \in {"T_PLUS", "T_MINUS"} -> 5
      [] type \in {"T_MULT", "T_DIV"} -> 6
      [] OTHER -> 0

OperandTypes ==
    {"T_IDENTIFIER", "T_STRING", "T_TRUE", "T_FALSE", "T_NUMERIC_EXACT", "T_NUMERIC_APPROX"}

\* the tokens the precedence rule is about: operands, binary and unary
\* operators, NOT and parentheses
PlainTypes ==
    OperandTypes \cup {"T_NOT", "T_LPAREN", "T_RPAREN"}
    \cup {t \in {k.type : k \in Punctuation \cup Keywords} : LevelOf(t) > 0}

Plain(S) == \A i \in 1..Len(S) : S[i].type \in PlainTypes

\* the number of parentheses open before token i of S
ParenDepth(S, i) ==
    Cardinality({j \in 1..(i - 1) : S[j].type = "T_LPAREN"})
    - Cardinality({j \in 1..(i - 1) : S[j].type = "T_RPAREN"})

\* the operators of a level that stand outside all parentheses of S and
\* after an operand, so that they are binary
TopOperators(S, level) ==
    {i \in 2..Len(S) : /\ LevelOf(S[i].type) = level
                       /\ ParenDepth(S, i) = 0
                       /\ S[i - 1].type \in OperandTypes \cup {"T_RPAREN"}}

Last(set) == CHOOSE i \in set : \A j \in set : j <= i

\* the node of one operand token
Leaf(t) ==
    CASE t.type = "T_IDENTIFIER" -> Identifier(t.val)
      [] t.type = "T_STRING" -> StringLiteral(t.val)
      [] t.type = "T_TRUE" -> Literal(BoolValue(TRUE))
      [] t.type = "T_FALSE" -> Literal(BoolValue(FALSE))
      [] t.type = "T_NUMERIC_EXACT" -> parseExactNumeric(t, FALSE).e
      [] t.type = "T_NUMERIC_APPROX" -> parseApproxNumeric(t).e

\* the node of a binary operator token over two trees
BinaryNode(t, l, r) ==
    CASE t.type = "T_OR" -> OrExpression(l, r)
      [] t.type = "T_AND" -> AndExpression(l, r)
      [] LevelOf(t.type) = 4 -> ComparisonExpression(ComparisonOperatorOf(t.type), l, r)
      [] t.type \in DOMAIN AddOps -> ArithmeticExpression(AddOps[t.type], l, r)
      [] t.type \in DOMAIN MultiplyOps -> ArithmeticExpression(MultiplyOps[t.type], l, r)

\* the tree of the selector S by the precedence rule: S is split at the last
\* binary operator of the lowest level that stands outside parentheses (so
\* that equal levels group left to right); NOT comes between AND and the
\* comparisons, the unary signs after the multiplicative operators, and a
\* parenthesized selector is one operand
RECURSIVE TreeOf(_)
TreeOf(S) ==
    LET lowest == {lv \in {1, 2} : TopOperators(S, lv) # {}}
        higher == {lv \in {4, 5, 6} : TopOperators(S, lv) # {}}
        SplitAt(i) == BinaryNode(S[i], TreeOf(SubSeq(S, 1, i - 1)), TreeOf(SubSeq(S, i + 1, Len(S))))
        Least(set) == CHOOSE lv \in set : \A other \in set : lv <= other
    IN  IF lowest # {} THEN SplitAt(Last(TopOperators(S, Least(lowest))))
        ELSE IF S[1].type = "T_NOT" THEN UnaryBooleanExpression("notOp", TreeOf(Tail(S)))
        ELSE IF higher # {} THEN SplitAt(Last(TopOperators(S, Least(higher))))
        ELSE IF S[1].type = "T_MINUS"
        THEN IF Len(S) = 2 /\ S[2].type = "T_NUMERIC_EXACT"
             THEN parseExactNumeric(S[2], TRUE).e
             ELSE UnaryArithExpression("negate", TreeOf(Tail(S)))
        ELSE IF S[1].type = "T_PLUS" THEN TreeOf(Tail(S))
        ELSE IF S[1].type = "T_LPAREN" THEN TreeOf(SubSeq(S, 2, Len(S) - 1))
        ELSE Leaf(S[1])

\* compile has accepted the selector and built a tree
Accepted == outcome = "returned" /\ ret # Null

Three == Num(3)
Four == Num(4)
Two == Num(2)

\* C11: the tree compile builds for an accepted selector of operands, binary
\* operators, unary signs, NOT and parentheses is the tree of the precedence
\* rule OR < AND < comparison < +,- < *,/ < unary, equal levels grouping left
\* to right and a parenthesized selector being one operand; 3 + 4 * 2
\* evaluates to 11 and (3 + 4) * 2 to 14.
C11_Precedence ==
    /\ (Accepted /\ Selector # <<>> /\ Plain(Selector)) => ret = TreeOf(Selector)
    /\ (Ended /\ Selector = <<Three, Plus, Four, Tok("T_MULT", <<"*">>), Two>>) =>
           (Accepted /\ eval(ret, env) = ExactValue(11))
    /\ (Ended /\ Selector = <<LParen, Three, Plus, Four, RParen, Tok("T_MULT", <<"*">>), Two>>) =>
           (Accepted /\ eval(ret, env) = ExactValue(14))

\* (3 + 4) * 2 has been compiled to a product whose left operand is the sum
C11_Witness ==
    /\ Accepted
    /\ Selector = <<LParen, Three, Plus, Four, RParen, Tok("T_MULT", <<"*">>), Two>>
    /\ ret.k = "ArithmeticExpression"
    /\ ret.op = "mult"
    /\ ret.e1.k = "ArithmeticExpression"
    /\ eval(ret, env) = ExactValue(14)

-----------------------------------------------------------------------------
(* Unary signs *)

\* operands of a unary sign: a primary, a parenthesized selector, a signed
\* operand
UnaryOperands ==
    {<<IdX>>, <<Num(5)>>, <<LParen, IdX, RParen>>, <<Minus, IdX>>, <<Plus, IdX>>, <<Minus, Num(5)>>}

\* C12: a unary + before any unary operand is accepted and yields the
\* operand's tree; a unary - before anything but a directly adjacent
\* exact-numeric token is accepted and yields a negate node over the operand.
C12_UnarySigns ==
    \A U \in UnaryOperands :
        /\ Compiled(<<Plus>> \o U) => (Accepted /\ ret = TreeOf(U))
        /\ (Compiled(<<Minus>> \o U) /\ U[1].type # "T_NUMERIC_EXACT") =>
               (Accepted /\ ret = UnaryArithExpression("negate", TreeOf(U)))

-----------------------------------------------------------------------------
(* The ESCAPE argument of LIKE *)

Like == Tok("T_LIKE", <<"LIKE">>)
Escape == Tok("T_ESCAPE", <<"ESCAPE">>)

\* a string token of one character that is no wildcard
GoodEscape(a) == a.type = "T_STRING" /\ Len(a.val) = 1 /\ a.val[1] \notin {"%", "_"}

\* the LIKE nodes of a tree that was built for x LIKE p ESCAPE s
LikeNodeOf(tree) ==
    IF tree.k = "UnaryBooleanExpression" THEN tree.e1 ELSE tree

\* C13: x LIKE p ESCAPE s compiles only if s is a string token of exactly
\* one character that is neither % nor _; every other ESCAPE argument makes
\* compile fail with an error, and the escape that reaches the pattern
\* compiler has length 1.
C13_EscapeArgument ==
    \A a \in EscapeArguments :
        Compiled(<<IdX, Like, Str(<<"s">>), Escape, a>>) =>
            /\ Accepted <=> GoodEscape(a)
            /\ ~GoodEscape(a) => outcome = "thrown"
            /\ Accepted => Len(LikeNodeOf(ret).escape) = 1

-----------------------------------------------------------------------------
(* LIKE: patterns evaluated against strings *)

\* all sequences over chars of length at most n
RECURSIVE Strings(_, _)
Strings(chars, n) ==
    IF n = 0 THEN {<<>>}
    ELSE Strings(chars, n - 1) \cup {Append(t, c) : t \in {u \in Strings(chars, n - 1) : Len(u) = n - 1}, c \in chars}

\* pattern characters: an ordinary character, the wildcards, characters that
\* are special in a regular expression, the escape character
PatternChars == {"a", "%", "_", "+", ".", "\\"}
TextChars == {"a", "_", "+", ".", "\n"}
LikeEscapes == {<<>>, <<"\\">>}

\* the LIKE nodes the constructor makes without throwing: a pattern whose
\* regular expression starts with a quantifier has no node, and one with a
\* quantifier after a quantifier is left out, the libraries reading it
\* differently
LikeExprs ==
    {LikeExpression(X, a[1], a[2]) :
        a \in {b \in Strings(PatternChars, MaxPattern) \X LikeEscapes : ~LikeExpression_Throws(b[1], b[2])}}

\* environments that give x a string, a number or nothing
LikeEnvs ==
    {[p \in Props |-> IF p = <<"x">> THEN v ELSE UnknownValue] :
        v \in {StringValue(t) : t \in Strings(TextChars, MaxText)} \cup {ExactValue(5), UnknownValue}}

InitLike ==
    /\ expr \in LikeExprs
    /\ env = [p \in Props |-> UnknownValue]
    /\ bn = BN_UNKNOWN
    /\ matched = FALSE
    /\ phase = "compiled"
    /\ NumIdle
    /\ ParserIdle

EvaluateLike == \E en \in LikeEnvs : EvaluateOn(en)

NextLike == EvaluateLike

SpecLike == InitLike /\ [][NextLike]_vars

\* the whole of s matches the pattern p read left to right with escape
\* character e: % any sequence, _ any one character, the character after e
\* itself, e dropped, any other character itself
RECURSIVE LikeMatches(_, _, _)
LikeMatches(p, e, s) ==
    IF p = <<>> THEN s = <<>>
    ELSE IF e # NoChar /\ p[1] = e
    THEN IF Len(p) >= 2 /\ p[2] # e
         THEN s # <<>> /\ s[1] = p[2] /\ LikeMatches(Tail(Tail(p)), e, Tail(s))
         ELSE LikeMatches(Tail(p), e, s)
    ELSE IF p[1] = "%" THEN \E k \in 0..Len(s) : LikeMatches(Tail(p), e, SubSeq(s, k + 1, Len(s)))
    ELSE IF p[1] = "_" THEN s # <<>> /\ LikeMatches(Tail(p), e, Tail(s))
    ELSE s # <<>> /\ s[1] = p[1] /\ LikeMatches(Tail(p), e, Tail(s))

\* C14: s LIKE p [ESCAPE e] is True exactly when the whole of s matches p,
\* an unescaped % matching any sequence, an unescaped _ one character, an
\* escaped % or _ itself, the escape character nothing, and every other
\* pattern character only itself.
C14_LikeMatches ==
    (Evaluated("LikeExpression") /\ env[<<"x">>].t = "T_STRING") =>
        bn = BoolOrNone(LikeMatches(expr.like,
                                    IF Len(expr.escape) = 1 THEN expr.escape[1] ELSE NoChar,
                                    env[<<"x">>].v))

-----------------------------------------------------------------------------
(* The token stream's pushback, and termination *)

\* C15: on every path of compile, returnTokens is never called twice
\* without a nextToken between, and never before the first nextToken: the
\* one-slot pushback is never exceeded.
C15_PushbackWithinOneSlot ==
    /\ ~tokeniser.overrun
    /\ tokeniser.slot = "empty" => tokeniser.tokp = 0
    /\ tokeniser.tokp \in (Len(tokeniser.tokens) - 1)..Len(tokeniser.tokens)

\* specialComparisons is entered with the token comparisonExpression has
\* returned, three tokens into the text, and no pushback was lost
C15_Witness ==
    /\ Active("specialComparisons")
    /\ Top.pc = "start"
    /\ tokeniser.slot = "pushed"
    /\ Len(tokeniser.tokens) = 2
    /\ ~tokeniser.overrun

\* C16: compile terminates on every finite text, by a return or a throw,
\* the end-of-stream token being delivered for ever after the text: every
\* production that is re-entered has consumed a token before, so that the
\* productions in progress are bounded by the tokens consumed, and no loop
\* repeats for ever. (compile also ends when it runs into the undefined
\* negation of the least integer.)
C16_Terminates ==
    /\ [](Len(stack) <= 9 + 8 * tokeniser.tokp)
    /\ <>(outcome # "parsing")

\* compile has returned after the loops of the productions gave way at the
\* end-of-stream token, which was returned and read again
C16_Witness ==
    /\ outcome = "returned"
    /\ ret.k = "OrExpression"
    /\ Exhausted(tokeniser)
    /\ Len(tokeniser.tokens) = 4

=============================================================================
